---- MODULE Spec2Model ----
(***************************************************************************)
(* Model of the I2C observer applet (glasgow/applet/interface/i2c_observer).*)
(*                                                                         *)
(* Three specifications share the pure definitions of the host side        *)
(* (decode_event, iter_xfer, is_filtered, print_xfer):                     *)
(*   Spec      the host loop: interact / read_xfer / read_byte, fed by a   *)
(*             byte source that delivers a byte, stalls or fails;          *)
(*   SpecWire  the gateware FSM of I2CObserverSubtarget writing event      *)
(*             bytes into the in-FIFO, decoded back with iter_xfer;        *)
(*   SpecFn    is_filtered, iter_xfer and print_xfer applied to arbitrary  *)
(*             byte sequences.                                             *)
(***************************************************************************)
EXTENDS Integers, Sequences, FiniteSets, TLC

VARIABLES
    \* ---- host loop (Spec) ----
    pc,          \* position of interact(): "loop", "read_token", "read_data",
                 \* "returned", "timedout", "failed"
    events,      \* read_xfer: the local list `events`
    timeout,     \* read_xfer: the local `timeout` (None or 0.3 s, kept in ms)
    include,     \* args.trace_i2c, the address allow-list
    counter,     \* interact: the local `counter`
    out,         \* the text written to stdout by print(), in chunks
    log,         \* the warnings given to self.logger
    exc_xfer,    \* XferTimeoutError.xfer of the exception in flight
    failure,     \* the exception that left interact(), "" while it runs
    consumed,    \* history: the bytes read_byte returned in the current call
    calls,       \* history: the arguments of every print_xfer call of interact
    nbytes,      \* history: how many bytes the source has delivered
    ncalls,      \* history: how many read_xfer calls interact has made
    raised,      \* history: the exception iface.read raised, "" if none
    \* ---- gateware (SpecWire) ----
    fsm,         \* the FSM state of I2CObserverSubtarget: "TRACE" / "XFER-VAL"
    byte_val,    \* the Signal byte_val
    in_fifo,     \* the bytes written to in_fifo, oldest first
    bus,         \* history: the bus events the observer reported
    \* ---- pure functions (SpecFn) ----
    fn_xfer,     \* the byte sequence a function is applied to
    fn_call      \* the call made on it and what it returned

vars == <<pc, events, timeout, include, counter, out, log, exc_xfer, failure,
          consumed, calls, nbytes, ncalls, raised, fsm, byte_val, in_fifo, bus,
          fn_xfer, fn_call>>

hostVars == <<pc, events, timeout, include, counter, out, log, exc_xfer,
              failure, consumed, calls, nbytes, ncalls, raised>>
wireVars == <<fsm, byte_val, in_fifo, bus>>
fnVars   == <<fn_xfer, fn_call>>

(***************************************************************************)
(* Bounds.                                                                 *)
(***************************************************************************)
\* bytes the source delivers in one run of the host loop
MaxBytes == 5
\* bus events the gateware reports in one run
MaxEvents == 6
\* length of the byte sequences the pure functions are applied to
MaxXferLen == 6

(***************************************************************************)
(* class Event, and Python's None.                                         *)
(***************************************************************************)
START == 16
STOP == 32
BYTE == 48
ACK == 64
None == -1
\* timeout = 0.3 (seconds), in milliseconds
StallTimeoutMs == 300

\* the bytes the byte source delivers in Spec: START, STOP, BYTE, ACK with the
\* nack bit, and 0x02, a byte whose tag 0x0 is no event (as data: address 1, write)
SourceBytes == {16, 32, 48, 65, 2}
\* the byte sequences of SpecFn are drawn over these
FnBytes == {16, 32, 48, 65, 160, 162}
\* the values of args.trace_i2c tried in Spec
HostAllowLists == {<<>>, <<1>>}
\* the values of args.trace_i2c tried in SpecFn
AllowLists == {<<>>, <<80>>, <<16, 81>>}
\* the data values on the bus in SpecWire; 0x20 is also the STOP byte
DataVals == {163, 85, 32}
\* the counters print_xfer is started with in SpecFn
Counters == {0, 41}

(***************************************************************************)
(* The codec helpers of I2CObserverApplet.                                 *)
(***************************************************************************)
\* value & 0xF0, value & 0x0F
decode_event(value) == <<(value \div 16) * 16, value % 16>>

\* (value & 0x1) != 0x1
is_ack(value) == (value % 2) # 1

\* (address & 0x1) == 0x1
is_read(address) == (address % 2) = 1

\* address >> 0x1
to_7bit_address(address) == address \div 2

(***************************************************************************)
(* cli_colors.py                                                           *)
(***************************************************************************)
Disabled == FALSE
_cli(s, c) == IF Disabled THEN <<s>> ELSE <<c, s, "ENDC">>
cli_green(s) == _cli(s, "GREEN")
cli_yellow(s) == _cli(s, "YELLOW")
cli_red(s) == _cli(s, "RED")
cli_blue(s) == _cli(s, "BLUE")

(***************************************************************************)
(* Python's number formatting, one string per character.                   *)
(***************************************************************************)
Digits == <<"0", "1", "2", "3", "4", "5", "6", "7", "8", "9",
            "a", "b", "c", "d", "e", "f">>

RECURSIVE DigitsOf(_, _)
\* the digits of n in the given base, most significant first
DigitsOf(n, base) ==
    IF n < base THEN <<Digits[n + 1]>>
    ELSE Append(DigitsOf(n \div base, base), Digits[(n % base) + 1])

RECURSIVE ZeroPad(_, _)
ZeroPad(s, width) == IF Len(s) >= width THEN s ELSE ZeroPad(<<"0">> \o s, width)

\* f"{n:04d}"
Fmt04d(n) == ZeroPad(DigitsOf(n, 10), 4)
\* f"{n:02x}"
Fmt02x(n) == ZeroPad(DigitsOf(n, 16), 2)

(***************************************************************************)
(* iter_xfer: the decoded events of a byte sequence, each a tuple          *)
(* <<event, data, is_address>>.                                            *)
(***************************************************************************)
RECURSIVE iter_from_sticky(_, _, _)
\* iter_from without `is_address = False` after a BYTE
iter_from_sticky(xfer, i, is_address) ==
    IF i > Len(xfer) THEN <<>>
    ELSE LET event      == decode_event(xfer[i])[1]
             event_data == decode_event(xfer[i])[2]
         IN  CASE event = START ->
                    <<<<event, None, FALSE>>>> \o iter_from_sticky(xfer, i + 1, TRUE)
               [] event = BYTE ->
                    <<<<event, IF i + 1 <= Len(xfer) THEN xfer[i + 1] ELSE None,
                        is_address>>>> \o iter_from_sticky(xfer, i + 2, is_address)
               [] event = ACK ->
                    <<<<event, event_data, FALSE>>>> \o iter_from_sticky(xfer, i + 1, is_address)
               [] event = STOP ->
                    <<<<event, None, FALSE>>>> \o iter_from_sticky(xfer, i + 1, is_address)
               [] OTHER ->
                    iter_from_sticky(xfer, i + 1, is_address)

RECURSIVE iter_from_data_arms(_, _, _)
\* iter_from with a data byte that carries the START tag setting is_address
iter_from_data_arms(xfer, i, is_address) ==
    IF i > Len(xfer) THEN <<>>
    ELSE LET event      == decode_event(xfer[i])[1]
             event_data == decode_event(xfer[i])[2]
         IN  CASE event = START ->
                    <<<<event, None, FALSE>>>> \o iter_from_data_arms(xfer, i + 1, TRUE)
               [] event = BYTE ->
                    <<<<event, IF i + 1 <= Len(xfer) THEN xfer[i + 1] ELSE None,
                        is_address>>>>
                    \o iter_from_data_arms(xfer, i + 2,
                            i + 1 <= Len(xfer) /\ decode_event(xfer[i + 1])[1] = START)
               [] event = ACK ->
                    <<<<event, event_data, FALSE>>>> \o iter_from_data_arms(xfer, i + 1, is_address)
               [] event = STOP ->
                    <<<<event, None, FALSE>>>> \o iter_from_data_arms(xfer, i + 1, is_address)
               [] OTHER ->
                    iter_from_data_arms(xfer, i + 1, is_address)

RECURSIVE iter_from_peek(_, _, _)
\* iter_from with the data byte looked at (xfer[i + 1]) but left in the iterator
iter_from_peek(xfer, i, is_address) ==
    IF i > Len(xfer) THEN <<>>
    ELSE LET event      == decode_event(xfer[i])[1]
             event_data == decode_event(xfer[i])[2]
         IN  CASE event = START ->
                    <<<<event, None, FALSE>>>> \o iter_from_peek(xfer, i + 1, TRUE)
               [] event = BYTE ->
                    <<<<event, IF i + 1 <= Len(xfer) THEN xfer[i + 1] ELSE None,
                        is_address>>>> \o iter_from_peek(xfer, i + 1, FALSE)
               [] event = ACK ->
                    <<<<event, event_data, FALSE>>>> \o iter_from_peek(xfer, i + 1, is_address)
               [] event = STOP ->
                    <<<<event, None, FALSE>>>> \o iter_from_peek(xfer, i + 1, is_address)
               [] OTHER ->
                    iter_from_peek(xfer, i + 1, is_address)

RECURSIVE iter_from(_, _, _)
iter_from(xfer, i, is_address) ==
    IF i > Len(xfer) THEN <<>>
    ELSE LET event      == decode_event(xfer[i])[1]
             event_data == decode_event(xfer[i])[2]
         IN  CASE event = START ->
                    <<<<event, None, FALSE>>>> \o iter_from(xfer, i + 1, TRUE)
               [] event = BYTE ->
                    \* next(xfer_iter, None)
                    <<<<event, IF i + 1 <= Len(xfer) THEN xfer[i + 1] ELSE None,
                        is_address>>>> \o iter_from(xfer, i + 2, FALSE)
               [] event = ACK ->
                    <<<<event, event_data, FALSE>>>> \o iter_from(xfer, i + 1, is_address)
               [] event = STOP ->
                    <<<<event, None, FALSE>>>> \o iter_from(xfer, i + 1, is_address)
               [] OTHER ->
                    iter_from(xfer, i + 1, is_address)

\* iter_xfer entered with is_address set
iter_xfer_armed(xfer) == iter_from(xfer, 1, TRUE)

iter_xfer(xfer) == iter_from(xfer, 1, FALSE)

(***************************************************************************)
(* is_filtered: [exc, ret, warn]; exc is the exception raised ("" if none),*)
(* ret the value returned, warn the warning logged ("" if none).           *)
(***************************************************************************)
InList(a, list) == \E i \in 1..Len(list) : list[i] = a

\* is_filtered without the check that the first event is a START
is_filtered_no_start_check(xfer, trace_i2c) ==
    IF Len(xfer) = 0
    THEN [exc |-> "IndexError", ret |-> FALSE, warn |-> ""]
    ELSE IF Len(xfer) < 3
    THEN [exc |-> "", ret |-> FALSE, warn |-> "xfer does contain address"]
    ELSE LET address == to_7bit_address(xfer[3])
         IN  IF Len(trace_i2c) > 0
             THEN [exc |-> "", ret |-> ~InList(address, trace_i2c), warn |-> ""]
             ELSE [exc |-> "", ret |-> FALSE, warn |-> ""]

\* is_filtered with xfer[1] taken as the address byte
is_filtered_second_byte(xfer, trace_i2c) ==
    IF Len(xfer) = 0
    THEN [exc |-> "IndexError", ret |-> FALSE, warn |-> ""]
    ELSE IF decode_event(xfer[1])[1] # START
    THEN [exc |-> "", ret |-> FALSE, warn |-> "xfer does not start with a START event"]
    ELSE IF Len(xfer) < 3
    THEN [exc |-> "", ret |-> FALSE, warn |-> "xfer does contain address"]
    ELSE LET address == to_7bit_address(xfer[2])
         IN  IF Len(trace_i2c) > 0
             THEN [exc |-> "", ret |-> ~InList(address, trace_i2c), warn |-> ""]
             ELSE [exc |-> "", ret |-> FALSE, warn |-> ""]

is_filtered(xfer, trace_i2c) ==
    IF Len(xfer) = 0
    THEN \* xfer[0] of an empty list
         [exc |-> "IndexError", ret |-> FALSE, warn |-> ""]
    ELSE IF decode_event(xfer[1])[1] # START
    THEN [exc |-> "", ret |-> FALSE, warn |-> "xfer does not start with a START event"]
    ELSE IF Len(xfer) < 3
    THEN [exc |-> "", ret |-> FALSE, warn |-> "xfer does contain address"]
    ELSE LET address == to_7bit_address(xfer[3])
         IN  IF Len(trace_i2c) > 0
             THEN [exc |-> "", ret |-> ~InList(address, trace_i2c), warn |-> ""]
             ELSE [exc |-> "", ret |-> FALSE, warn |-> ""]

(***************************************************************************)
(* print_xfer: [counter, text, exc]; text is what it printed, in chunks    *)
(* ("\n" where print() ended the line), exc the exception that ended it    *)
(* early ("" if none), counter the value it returns (or had when it        *)
(* raised).                                                                *)
(***************************************************************************)
print_event(st, ev) ==
    LET event == ev[1]
        data == ev[2]
        is_address == ev[3]
    IN  IF st.exc # "" THEN st
        ELSE CASE event = START /\ ~is_address ->
                    [st EXCEPT !.counter = st.counter + 1,
                               !.text = st.text \o Fmt04d(st.counter + 1)
                                           \o <<" ">> \o cli_blue("START")]
               [] event = BYTE /\ is_address ->
                    IF data = None
                    THEN \* is_read(None): None & 0x1
                         [st EXCEPT !.exc = "TypeError"]
                    ELSE [st EXCEPT !.text = st.text
                                \o <<" ", IF is_read(data) THEN "R" ELSE "W">>
                                \o <<" ">> \o cli_yellow(Fmt02x(to_7bit_address(data)))]
               [] event = BYTE /\ ~is_address ->
                    IF data = None
                    THEN \* f"{None:02x}"
                         [st EXCEPT !.exc = "TypeError"]
                    ELSE [st EXCEPT !.text = st.text \o <<" ">> \o Fmt02x(data)]
               [] event = ACK /\ ~is_address ->
                    [st EXCEPT !.text = st.text \o <<" ">>
                                \o (IF is_ack(data) THEN cli_green("A") ELSE cli_red("N"))]
               [] event = STOP /\ ~is_address ->
                    [st EXCEPT !.text = st.text \o cli_blue(" STOP") \o <<"\n">>]
               [] OTHER -> st

RECURSIVE print_events(_, _, _)
print_events(st, evs, i) ==
    IF i > Len(evs) THEN st ELSE print_events(print_event(st, evs[i]), evs, i + 1)

print_xfer(xfer, c) ==
    print_events([counter |-> c, text |-> <<>>, exc |-> ""], iter_xfer(xfer), 1)

(***************************************************************************)
(* read_xfer: the match statement applied to one byte read in token        *)
(* position. next is where the loop goes: "read_token" (the next event     *)
(* byte), "read_data" (the second read_byte of the BYTE case) or           *)
(* "returned".                                                             *)
(***************************************************************************)
\* read_match with the default case appending the byte
read_match_keeps_unknown(evs, value) ==
    LET event == (value \div 16) * 16
    IN  CASE event = BYTE  -> [events |-> Append(evs, value), next |-> "read_data", warn |-> ""]
          [] event = STOP  -> [events |-> Append(evs, value), next |-> "returned", warn |-> ""]
          [] OTHER         -> [events |-> Append(evs, value), next |-> "read_token", warn |-> ""]

\* read_match with the BYTE case not reading the data byte
read_match_byte_single(evs, value) ==
    LET event == (value \div 16) * 16
    IN  CASE event = START -> [events |-> Append(evs, value), next |-> "read_token", warn |-> ""]
          [] event = BYTE  -> [events |-> Append(evs, value), next |-> "read_token", warn |-> ""]
          [] event = ACK   -> [events |-> Append(evs, value), next |-> "read_token", warn |-> ""]
          [] event = STOP  -> [events |-> Append(evs, value), next |-> "returned", warn |-> ""]
          [] OTHER         -> [events |-> evs, next |-> "read_token", warn |-> "Unknown Event"]

read_match(evs, value) ==
    LET event == (value \div 16) * 16
    IN  CASE event = START -> [events |-> Append(evs, value), next |-> "read_token", warn |-> ""]
          [] event = BYTE  -> [events |-> Append(evs, value), next |-> "read_data", warn |-> ""]
          [] event = ACK   -> [events |-> Append(evs, value), next |-> "read_token", warn |-> ""]
          [] event = STOP  -> [events |-> Append(evs, value), next |-> "returned", warn |-> ""]
          [] OTHER         -> [events |-> evs, next |-> "read_token", warn |-> "Unknown Event"]

Warn(l, w) == IF w = "" THEN l ELSE Append(l, w)

(***************************************************************************)
(* read_xfer run to its end on a source that delivers the bytes of stream  *)
(* and then nothing: [status, events, used]. status is "returned",         *)
(* "timedout" (XferTimeoutError(events)) or "blocked" (the first read_byte,*)
(* which has no deadline, never returns); used counts the bytes read.      *)
(***************************************************************************)
RECURSIVE read_loop(_, _, _, _)
read_loop(stream, i, evs, tmo) ==
    IF i > Len(stream)
    THEN [status |-> IF tmo = None THEN "blocked" ELSE "timedout",
          events |-> evs, used |-> i - 1]
    ELSE LET m == read_match(evs, stream[i])
         IN  IF m.next = "returned"
             THEN [status |-> "returned", events |-> m.events, used |-> i]
             ELSE IF m.next = "read_data"
             THEN IF i + 1 > Len(stream)
                  THEN [status |-> "timedout", events |-> m.events, used |-> i]
                  ELSE read_loop(stream, i + 2, Append(m.events, stream[i + 1]),
                                 StallTimeoutMs)
             ELSE read_loop(stream, i + 1, m.events, StallTimeoutMs)

read_xfer(stream) == read_loop(stream, 1, <<>>, None)

(***************************************************************************)
(* The host loop.                                                          *)
(***************************************************************************)
HostInit ==
    /\ pc = "loop"
    /\ events = <<>>
    /\ timeout = None
    /\ include \in HostAllowLists
    /\ counter = 0
    /\ out = <<>>
    /\ log = <<>>
    /\ exc_xfer = <<>>
    /\ failure = ""
    /\ consumed = <<>>
    /\ calls = <<>>
    /\ nbytes = 0
    /\ ncalls = 0
    /\ raised = ""

\* ReadXferCall with the deadline kept from the call before
ReadXferCallKeepsTimeout ==
    /\ pc = "loop"
    /\ pc' = "read_token"
    /\ events' = <<>>
    /\ consumed' = <<>>
    /\ ncalls' = ncalls + 1
    /\ UNCHANGED <<timeout, include, counter, out, log, exc_xfer, failure, calls, nbytes>>
    /\ UNCHANGED <<raised, wireVars, fnVars>>

\* ReadXferCall with the accumulator kept from the call before
ReadXferCallKeepsEvents ==
    /\ pc = "loop"
    /\ pc' = "read_token"
    /\ timeout' = None
    /\ consumed' = <<>>
    /\ ncalls' = ncalls + 1
    /\ UNCHANGED <<events, include, counter, out, log, exc_xfer, failure, calls, nbytes>>
    /\ UNCHANGED <<raised, wireVars, fnVars>>

\* interact: xfer = await self.read_xfer(iface); read_xfer: events = [], timeout = None
ReadXferCall ==
    /\ pc = "loop"
    /\ pc' = "read_token"
    /\ events' = <<>>
    /\ timeout' = None
    /\ consumed' = <<>>
    /\ ncalls' = ncalls + 1
    /\ UNCHANGED <<include, counter, out, log, exc_xfer, failure, calls, nbytes>>
    /\ UNCHANGED <<raised, wireVars, fnVars>>

\* read_xfer: value = await self.read_byte(iface, timeout) returns value;
\* timeout = 0.3; the match statement
ReadEvent(value) ==
    /\ pc = "read_token"
    /\ nbytes < MaxBytes
    /\ LET m == read_match(events, value)
       IN  /\ events' = m.events
           /\ pc' = m.next
           /\ log' = Warn(log, m.warn)
    /\ timeout' = StallTimeoutMs
    /\ consumed' = Append(consumed, value)
    /\ nbytes' = nbytes + 1
    /\ UNCHANGED <<include, counter, out, exc_xfer, failure, calls, ncalls>>
    /\ UNCHANGED <<raised, wireVars, fnVars>>

\* read_xfer, case Event.BYTE: events.append(await self.read_byte(iface, timeout))
ReadData(value) ==
    /\ pc = "read_data"
    /\ nbytes < MaxBytes
    /\ events' = Append(events, value)
    /\ pc' = "read_token"
    /\ consumed' = Append(consumed, value)
    /\ nbytes' = nbytes + 1
    /\ UNCHANGED <<timeout, include, counter, out, log, exc_xfer, failure, calls, ncalls>>
    /\ UNCHANGED <<raised, wireVars, fnVars>>

\* ReadTimeout with the last accumulated byte left out of the exception
ReadTimeoutDropsLast ==
    /\ pc \in {"read_token", "read_data"}
    /\ timeout # None
    /\ exc_xfer' = SubSeq(events, 1, Len(events) - 1)
    /\ pc' = "timedout"
    /\ UNCHANGED <<events, timeout, include, counter, out, log, failure, consumed,
                   calls, nbytes, ncalls>>
    /\ UNCHANGED <<raised, wireVars, fnVars>>

\* read_byte: asyncio.wait_for gives up after `timeout`; read_xfer turns the
\* asyncio.TimeoutError into XferTimeoutError(events)
ReadTimeout ==
    /\ pc \in {"read_token", "read_data"}
    /\ timeout # None
    /\ exc_xfer' = events
    /\ pc' = "timedout"
    /\ UNCHANGED <<events, timeout, include, counter, out, log, failure, consumed,
                   calls, nbytes, ncalls>>
    /\ UNCHANGED <<raised, wireVars, fnVars>>

\* ReadFails with every exception of iface.read taken for the stall deadline
ReadFailsAsTimeout ==
    /\ pc \in {"read_token", "read_data"}
    /\ raised' = "SourceError"
    /\ exc_xfer' = events
    /\ pc' = "timedout"
    /\ UNCHANGED <<events, timeout, include, counter, out, log, failure, consumed,
                   calls, nbytes, ncalls>>
    /\ UNCHANGED <<wireVars, fnVars>>

\* read_byte: iface.read raises something else (the device is gone); neither
\* read_xfer nor interact catches it
ReadFails ==
    /\ pc \in {"read_token", "read_data"}
    /\ raised' = "SourceError"
    /\ pc' = "failed"
    /\ failure' = raised'
    /\ UNCHANGED <<events, timeout, include, counter, out, log, exc_xfer, consumed,
                   calls, nbytes, ncalls>>
    /\ UNCHANGED <<wireVars, fnVars>>

\* interact, after read_xfer returned: is_filtered, then continue or
\* counter = self.print_xfer(xfer, counter)
ShowXfer ==
    /\ pc = "returned"
    /\ LET f == is_filtered(events, include)
           p == print_xfer(events, counter)
       IN  IF f.exc # ""
           THEN /\ pc' = "failed"
                /\ failure' = f.exc
                /\ UNCHANGED <<counter, out, log, calls>>
           ELSE IF f.ret
           THEN /\ pc' = "loop"
                /\ log' = Warn(log, f.warn)
                /\ UNCHANGED <<counter, out, failure, calls>>
           ELSE /\ log' = Warn(log, f.warn)
                /\ calls' = Append(calls, [xfer |-> events, counter |-> counter])
                /\ out' = out \o p.text
                /\ IF p.exc # ""
                   THEN pc' = "failed" /\ failure' = p.exc /\ UNCHANGED counter
                   ELSE pc' = "loop" /\ counter' = p.counter /\ UNCHANGED failure
    /\ UNCHANGED <<events, timeout, include, exc_xfer, consumed, nbytes, ncalls>>
    /\ UNCHANGED <<raised, wireVars, fnVars>>

\* HandleTimeout with the address filter applied to the partial as well
HandleTimeoutFiltered ==
    /\ pc = "timedout"
    /\ LET f == is_filtered(exc_xfer, include)
           p == print_xfer(exc_xfer, counter)
       IN  /\ log' = Append(log, "I2C transfer time out")
           /\ IF f.ret
              THEN pc' = "loop" /\ UNCHANGED <<calls, out, failure>>
              ELSE /\ calls' = Append(calls, [xfer |-> exc_xfer, counter |-> counter])
                   /\ out' = out \o p.text
                   /\ IF p.exc # ""
                      THEN pc' = "failed" /\ failure' = p.exc
                      ELSE pc' = "loop" /\ UNCHANGED failure
    /\ UNCHANGED <<events, timeout, include, counter, exc_xfer, consumed, nbytes, ncalls>>
    /\ UNCHANGED <<raised, wireVars, fnVars>>

\* interact, except XferTimeoutError as e: the warning, then
\* self.print_xfer(e.xfer, counter), whose result is dropped
HandleTimeout ==
    /\ pc = "timedout"
    /\ LET p == print_xfer(exc_xfer, counter)
       IN  /\ log' = Append(log, "I2C transfer time out")
           /\ calls' = Append(calls, [xfer |-> exc_xfer, counter |-> counter])
           /\ out' = out \o p.text
           /\ IF p.exc # ""
              THEN pc' = "failed" /\ failure' = p.exc
              ELSE pc' = "loop" /\ UNCHANGED failure
    /\ UNCHANGED <<events, timeout, include, counter, exc_xfer, consumed, nbytes, ncalls>>
    /\ UNCHANGED <<raised, wireVars, fnVars>>

Next ==
    \/ ReadXferCall
    \/ \E value \in SourceBytes : ReadEvent(value)
    \/ \E value \in SourceBytes : ReadData(value)
    \/ ReadTimeout
    \/ ReadFails
    \/ ShowXfer
    \/ HandleTimeout

(***************************************************************************)
(* The gateware: I2CObserverSubtarget.elaborate, one strobe of the         *)
(* observer per clock cycle.                                               *)
(***************************************************************************)
WireInit ==
    /\ fsm = "TRACE"
    /\ byte_val = 0
    /\ in_fifo = <<>>
    /\ bus = <<>>

\* with m.If(i2c_observer.bus.start)
BusStart ==
    /\ fsm = "TRACE"
    /\ Len(bus) < MaxEvents
    /\ in_fifo' = Append(in_fifo, START)
    /\ bus' = Append(bus, [kind |-> "Start", value |-> None])
    /\ UNCHANGED <<fsm, byte_val>>
    /\ UNCHANGED <<hostVars, fnVars>>

\* with m.If(i2c_observer.bus.stop)
BusStop ==
    /\ fsm = "TRACE"
    /\ Len(bus) < MaxEvents
    /\ in_fifo' = Append(in_fifo, STOP)
    /\ bus' = Append(bus, [kind |-> "Stop", value |-> None])
    /\ UNCHANGED <<fsm, byte_val>>
    /\ UNCHANGED <<hostVars, fnVars>>

\* with m.If(i2c_observer.ack): Event.ACK | i2c_observer.ack_o; ack_o is the
\* bit sampled on the bus, 0 for an acknowledge and 1 for none
BusAck(ack_o) ==
    /\ fsm = "TRACE"
    /\ Len(bus) < MaxEvents
    /\ in_fifo' = Append(in_fifo, ACK + ack_o)
    /\ bus' = Append(bus, [kind |-> "Ack", value |-> ack_o])
    /\ UNCHANGED <<fsm, byte_val>>
    /\ UNCHANGED <<hostVars, fnVars>>

\* with m.If(i2c_observer.byte)
BusByte(byte_o) ==
    /\ fsm = "TRACE"
    /\ Len(bus) < MaxEvents
    /\ in_fifo' = Append(in_fifo, BYTE)
    /\ byte_val' = byte_o
    /\ fsm' = "XFER-VAL"
    /\ bus' = Append(bus, [kind |-> "DataByte", value |-> byte_o])
    /\ UNCHANGED <<hostVars, fnVars>>

\* with m.State("XFER-VAL")
XferVal ==
    /\ fsm = "XFER-VAL"
    /\ in_fifo' = Append(in_fifo, byte_val)
    /\ fsm' = "TRACE"
    /\ UNCHANGED <<byte_val, bus>>
    /\ UNCHANGED <<hostVars, fnVars>>

NextWire ==
    \/ BusStart
    \/ BusStop
    \/ \E ack_o \in {0, 1} : BusAck(ack_o)
    \/ \E byte_o \in DataVals : BusByte(byte_o)
    \/ XferVal

(***************************************************************************)
(* The pure functions applied to a byte sequence.                          *)
(***************************************************************************)
SeqsUpTo(S, n) == UNION {[1..k -> S] : k \in 0..n}

FnInit ==
    /\ fn_xfer \in SeqsUpTo(FnBytes, MaxXferLen)
    /\ fn_call = [op |-> "none"]

CallIterXfer ==
    /\ fn_call.op = "none"
    /\ fn_call' = [op |-> "iter_xfer", ret |-> iter_xfer(fn_xfer)]
    /\ UNCHANGED fn_xfer
    /\ UNCHANGED <<hostVars, wireVars>>

CallIsFiltered(trace_i2c) ==
    /\ fn_call.op = "none"
    /\ fn_call' = [op |-> "is_filtered", trace_i2c |-> trace_i2c,
                   ret |-> is_filtered(fn_xfer, trace_i2c)]
    /\ UNCHANGED fn_xfer
    /\ UNCHANGED <<hostVars, wireVars>>

CallPrintXfer(c) ==
    /\ fn_call.op = "none"
    /\ fn_call' = [op |-> "print_xfer", counter |-> c, ret |-> print_xfer(fn_xfer, c)]
    /\ UNCHANGED fn_xfer
    /\ UNCHANGED <<hostVars, wireVars>>

CallReadXfer ==
    /\ fn_call.op = "none"
    /\ fn_call' = [op |-> "read_xfer", ret |-> read_xfer(fn_xfer)]
    /\ UNCHANGED fn_xfer
    /\ UNCHANGED <<hostVars, wireVars>>

NextFn ==
    \/ CallReadXfer
    \/ CallIterXfer
    \/ \E trace_i2c \in AllowLists : CallIsFiltered(trace_i2c)
    \/ \E c \in Counters : CallPrintXfer(c)

(***************************************************************************)
(* The specifications.                                                     *)
(***************************************************************************)
HostIdle ==
    /\ pc = "loop" /\ events = <<>> /\ timeout = None /\ include = <<>>
    /\ counter = 0 /\ out = <<>> /\ log = <<>> /\ exc_xfer = <<>> /\ failure = ""
    /\ consumed = <<>> /\ calls = <<>> /\ nbytes = 0 /\ ncalls = 0 /\ raised = ""

FnIdle == fn_xfer = <<>> /\ fn_call = [op |-> "none"]

Init == HostInit /\ WireInit /\ FnIdle
Spec == Init /\ [][Next]_vars

\* the steps of the host that do not wait for the byte source, and the stall
\* deadline, which asyncio's timer fires once armed
HostProgress == ReadXferCall \/ ReadTimeout \/ ShowXfer \/ HandleTimeout
FairSpec == Spec /\ WF_vars(HostProgress)

InitWire == HostIdle /\ WireInit /\ FnIdle
SpecWire == InitWire /\ [][NextWire]_vars

InitFn == HostIdle /\ WireInit /\ FnInit
SpecFn == InitFn /\ [][NextFn]_vars

(***************************************************************************)
(* The wire format (spec section 6), used to state the claims: the tag of  *)
(* a byte, and the framing of a byte stream into tokens.                   *)
(***************************************************************************)
Tag(b) == b \div 16
EventTags == {1, 2, 3, 4}
Last(s) == s[Len(s)]

RECURSIVE TokenStarts(_, _)
\* the positions of s, from i on, where a token (or a stray byte) starts,
\* and the position after the last one
TokenStarts(s, i) ==
    IF i > Len(s) THEN {i}
    ELSE {i} \cup TokenStarts(s, IF Tag(s[i]) = 3 THEN i + 2 ELSE i + 1)

\* the bytes of s a reader framing it keeps: every byte but the bytes in
\* token position whose tag is no event tag
Kept(s) ==
    LET starts == TokenStarts(s, 1)
        keep == {i \in 1..Len(s) : i \notin starts \/ Tag(s[i]) \in EventTags}
        F[i \in 0..Len(s)] ==
            IF i = 0 THEN <<>>
            ELSE IF i \in keep THEN Append(F[i - 1], s[i]) ELSE F[i - 1]
    IN  F[Len(s)]

InCall == pc \in {"read_token", "read_data", "returned", "timedout"}

(***************************************************************************)
(* C1. Every stall is recoverable: whenever read_xfer raised               *)
(* XferTimeoutError, with whatever partial transaction, interact logs the  *)
(* warning, hands the partial to print_xfer and goes on to the next        *)
(* read_xfer call; the stall does not end the loop.                        *)
(* Stated as a property of every step taken from the except clause.        *)
(***************************************************************************)
C1_StallRecoverable ==
    [][pc = "timedout" =>
          /\ pc' = "loop"
          /\ failure' = ""
          /\ log' = Append(log, "I2C transfer time out")
          /\ calls' = Append(calls, [xfer |-> exc_xfer, counter |-> counter])]_vars

(***************************************************************************)
(* C2. The XferTimeoutError carries exactly the bytes this call appended   *)
(* before the stall, in arrival order: the bytes read in this call, less   *)
(* the bytes discarded in token position; nothing of an earlier call.      *)
(***************************************************************************)
C2_PartialExact ==
    pc = "timedout" => exc_xfer = Kept(consumed)

\* a second call that discarded 0x02, read START and the BYTE opcode, and
\* stalled waiting for the data byte
C2_Witness ==
    /\ pc = "timedout"
    /\ ncalls = 2
    /\ consumed = <<2, 16, 48>>
    /\ exc_xfer = <<16, 48>>

(***************************************************************************)
(* C3. Every partial transaction of an XferTimeoutError is handed to       *)
(* print_xfer, whatever args.trace_i2c holds.                              *)
(***************************************************************************)
C3_PartialPrinted ==
    [][pc = "timedout" =>
          calls' = Append(calls, [xfer |-> exc_xfer, counter |-> counter])]_vars

\* a partial the allow-list would have suppressed has been handed to print_xfer
C3_Witness ==
    /\ include # <<>>
    /\ calls # <<>>
    /\ pc = "loop"
    /\ Last(calls).xfer = exc_xfer
    /\ Len(exc_xfer) >= 3
    /\ is_filtered(exc_xfer, include).ret

(***************************************************************************)
(* C4. A stalled bus never blocks the reader: once a call has read a byte  *)
(* (the deadline is armed), if no further byte arrives, the call ends and  *)
(* interact starts the next read_xfer call. A failure of the source itself *)
(* is the one other way out.                                               *)
(***************************************************************************)
C4_StallNeverBlocks ==
    \A k \in 1..(MaxBytes + 2) : \A n \in 1..(MaxBytes + 1) :
        (pc \in {"read_token", "read_data"} /\ timeout # None
            /\ ncalls = k /\ nbytes = n)
        ~> (ncalls > k \/ nbytes > n \/ failure = "SourceError")

(***************************************************************************)
(* C5, as claimed. Nothing is appended before a START has been read in the *)
(* call: a transaction under construction, returned or surfaced, if not    *)
(* empty, has a START byte first.                                          *)
(***************************************************************************)
C5_StartFirst ==
    (InCall /\ events # <<>>) => Tag(events[1]) = 1

(***************************************************************************)
(* C5, amended. Accumulation begins on the first byte of the call whose    *)
(* tag is an event tag (START, STOP, BYTE or ACK): nothing is appended     *)
(* before it, and it is the first byte of the transaction; so the          *)
(* transaction has a START first exactly when that byte was a START.       *)
(***************************************************************************)
C5_FirstEventFirst ==
    InCall =>
        LET known == {i \in 1..Len(consumed) : Tag(consumed[i]) \in EventTags}
            first == CHOOSE i \in known : \A j \in known : i <= j
        IN  IF known = {} THEN events = <<>>
            ELSE /\ events # <<>>
                 /\ events[1] = consumed[first]
                 /\ Tag(events[1]) \in EventTags

\* the call after a stall returned a transaction that starts with an ACK
C5_Witness ==
    /\ pc = "returned"
    /\ ncalls = 2
    /\ consumed = <<2, 65, 32>>
    /\ events = <<65, 32>>

(***************************************************************************)
(* C6. read_xfer returns exactly when a STOP is read in token position,    *)
(* and what it returns is made of whole tokens (every BYTE opcode has its  *)
(* data byte), with one STOP token, the last byte; so iter_xfer yields no  *)
(* BYTE event without a value for it.                                      *)
(***************************************************************************)
RECURSIVE WholeFrom(_, _)
\* s from i on is a sequence of whole tokens of the four kinds
WholeFrom(s, i) ==
    IF i > Len(s) THEN TRUE
    ELSE IF Tag(s[i]) = 3 THEN i + 1 <= Len(s) /\ WholeFrom(s, i + 2)
    ELSE Tag(s[i]) \in EventTags /\ WholeFrom(s, i + 1)

\* the positions of the STOP tokens of s
StopTokens(s) == {i \in TokenStarts(s, 1) : i <= Len(s) /\ Tag(s[i]) = 2}

C6_CompleteWholeTokens ==
    /\ InCall =>
          (pc = "returned" <=> (consumed # <<>> /\ Len(consumed) \in StopTokens(consumed)))
    /\ pc = "returned" =>
          /\ WholeFrom(events, 1)
          /\ StopTokens(events) = {Len(events)}
          /\ \A j \in 1..Len(iter_xfer(events)) :
                iter_xfer(events)[j][1] = BYTE => iter_xfer(events)[j][2] # None

\* a completed transaction whose data byte has the value of the STOP byte
C6_Witness ==
    /\ pc = "returned"
    /\ events = <<16, 48, 32, 32>>

(***************************************************************************)
(* C7. A byte with no event tag, read in token position, is dropped and    *)
(* does not end the read: putting such a byte at any token boundary of a   *)
(* stream leaves the transaction read_xfer builds from it, the way the     *)
(* call ends, and the events iter_xfer decodes, as they were. (Only a      *)
(* call that had read nothing ends differently: the stray byte arms the    *)
(* deadline.) The streams are the well-formed ones: whole tokens of the    *)
(* four kinds.                                                             *)
(***************************************************************************)
Insert(s, i, u) == SubSeq(s, 1, i - 1) \o <<u>> \o SubSeq(s, i, Len(s))
UnknownBytes == {0, 162}

C7_UnknownTolerated ==
    (fn_call.op = "read_xfer" /\ WholeFrom(fn_xfer, 1)) =>
        LET decoded == iter_xfer(fn_xfer)
        IN  \A i \in TokenStarts(fn_xfer, 1) \cap (1..(Len(fn_xfer) + 1)) :
                \A u \in UnknownBytes :
                    LET noisy == Insert(fn_xfer, i, u)
                        r == read_xfer(noisy)
                    IN  /\ r.events = fn_call.ret.events
                        /\ fn_call.ret.status # "blocked" => r.status = fn_call.ret.status
                        /\ iter_xfer(noisy) = decoded

\* a well-formed transaction; with 0x00 put between its data byte and its
\* ACK the read still completes
C7_Witness ==
    /\ fn_call.op = "read_xfer"
    /\ fn_xfer = <<16, 48, 162, 65, 32>>
    /\ fn_call.ret.status = "returned"
    /\ WholeFrom(fn_xfer, 1)
    /\ 4 \in TokenStarts(fn_xfer, 1)
    /\ read_xfer(Insert(fn_xfer, 4, 0)).status = "returned"

(***************************************************************************)
(* C8. The decoded events of a transaction, START by START: the BYTE       *)
(* events that follow a START up to the next START (or the end) are its    *)
(* span.                                                                   *)
(***************************************************************************)
StartIdx(d) == {j \in 1..Len(d) : d[j][1] = START}
DataIdx(d) == {j \in 1..Len(d) : d[j][1] = BYTE}
Span(d, j) == {k \in DataIdx(d) : k > j /\ \A m \in StartIdx(d) : ~(j < m /\ m < k)}
AddrIn(d, j) == {k \in Span(d, j) : d[k][3]}
FirstOf(S) == {k \in S : \A m \in S : k <= m}

(***************************************************************************)
(* C8, as claimed. is_address is true for exactly one BYTE event per       *)
(* START, the first that follows it, and false for every other.            *)
(***************************************************************************)
C8_ExactlyOnePerStart ==
    fn_call.op = "iter_xfer" =>
        LET d == fn_call.ret
        IN  /\ \A j \in StartIdx(d) :
                  Cardinality(AddrIn(d, j)) = 1 /\ AddrIn(d, j) = FirstOf(Span(d, j))
            /\ \A k \in DataIdx(d) : d[k][3] => \E j \in StartIdx(d) : k \in AddrIn(d, j)

(***************************************************************************)
(* C8, amended. is_address is true for the first BYTE event that follows   *)
(* a START before the next START, when there is one (a START with no BYTE  *)
(* event after it has none), and false for every other BYTE event.         *)
(***************************************************************************)
C8_FirstAfterStart ==
    fn_call.op = "iter_xfer" =>
        LET d == fn_call.ret
        IN  /\ \A j \in StartIdx(d) : AddrIn(d, j) = FirstOf(Span(d, j))
            /\ \A k \in DataIdx(d) : d[k][3] => \E j \in StartIdx(d) : k \in AddrIn(d, j)

\* START, address byte, a second data byte, and a START nothing follows
C8_Witness ==
    /\ fn_call.op = "iter_xfer"
    /\ fn_xfer = <<16, 48, 162, 48, 160, 16>>
    /\ fn_call.ret = <<<<START, None, FALSE>>, <<BYTE, 162, TRUE>>,
                       <<BYTE, 160, FALSE>>, <<START, None, FALSE>>>>

(***************************************************************************)
(* C9. Round trip: the bytes the gateware wrote for a sequence of bus      *)
(* events decode, with iter_xfer, to the same events in the same order,    *)
(* with the same data values and acknowledge bits; and the sequence        *)
(* START, 0xA3, ack, 0x55, nack, STOP decodes with 0xA3 as the address.    *)
(***************************************************************************)
AsBusEvent(t) ==
    CASE t[1] = START -> [kind |-> "Start", value |-> None]
      [] t[1] = STOP  -> [kind |-> "Stop", value |-> None]
      [] t[1] = BYTE  -> [kind |-> "DataByte", value |-> t[2]]
      [] t[1] = ACK   -> [kind |-> "Ack", value |-> IF is_ack(t[2]) THEN 0 ELSE 1]

ExampleBus ==
    <<[kind |-> "Start", value |-> None], [kind |-> "DataByte", value |-> 163],
      [kind |-> "Ack", value |-> 0], [kind |-> "DataByte", value |-> 85],
      [kind |-> "Ack", value |-> 1], [kind |-> "Stop", value |-> None]>>

ExampleDecoded ==
    <<<<START, None, FALSE>>, <<BYTE, 163, TRUE>>, <<ACK, 0, FALSE>>,
      <<BYTE, 85, FALSE>>, <<ACK, 1, FALSE>>, <<STOP, None, FALSE>>>>

C9_RoundTrip ==
    fsm = "TRACE" =>
        LET d == iter_xfer(in_fifo)
        IN  /\ Len(d) = Len(bus)
            /\ \A j \in 1..Len(d) : AsBusEvent(d[j]) = bus[j]
            /\ bus = ExampleBus =>
                  (d = ExampleDecoded /\ is_ack(d[3][2]) /\ ~is_ack(d[5][2]))

C9_Witness ==
    /\ fsm = "TRACE"
    /\ bus = ExampleBus
    /\ in_fifo = <<16, 48, 163, 64, 48, 85, 65, 32>>

(***************************************************************************)
(* C10. For a transaction of at least 3 bytes that starts with START, and  *)
(* a non-empty allow-list, is_filtered returns true iff no address a of    *)
(* the list is the upper 7 bits of the third byte (the byte is 2a or       *)
(* 2a + 1); with the list {0x50}, 0xA2 is filtered and 0xA0 is not.        *)
(***************************************************************************)
C10_AllowList ==
    (/\ fn_call.op = "is_filtered"
     /\ Len(fn_xfer) >= 3
     /\ Tag(fn_xfer[1]) = 1
     /\ fn_call.trace_i2c # <<>>) =>
        LET list == fn_call.trace_i2c
            listed == \E k \in 1..Len(list) : fn_xfer[3] \in {2 * list[k], 2 * list[k] + 1}
        IN  /\ fn_call.ret.exc = ""
            /\ fn_call.ret.ret <=> ~listed
            /\ (list = <<80>> /\ fn_xfer[3] = 162) => fn_call.ret.ret
            /\ (list = <<80>> /\ fn_xfer[3] = 160) => ~fn_call.ret.ret

C10_Witness ==
    /\ fn_call.op = "is_filtered"
    /\ fn_call.trace_i2c = <<80>>
    /\ fn_xfer = <<16, 48, 162>>
    /\ fn_call.ret.ret


(***************************************************************************)
(* C11. With an empty allow-list is_filtered returns false for every byte  *)
(* sequence, the empty one and the malformed ones included, and raises     *)
(* nothing.                                                                *)
(***************************************************************************)
C11_EmptyListNeverFilters ==
    (fn_call.op = "is_filtered" /\ fn_call.trace_i2c = <<>>) =>
        (fn_call.ret.exc = "" /\ ~fn_call.ret.ret)


(***************************************************************************)
(* C12. A transaction read_xfer returned that does not start with START,   *)
(* or has fewer than 3 bytes, is not filtered, whatever args.trace_i2c     *)
(* holds: interact hands it to print_xfer.                                 *)
(***************************************************************************)
C12_MalformedShown ==
    [][(pc = "returned" /\ (Tag(events[1]) # 1 \/ Len(events) < 3)) =>
          /\ calls' = Append(calls, [xfer |-> events, counter |-> counter])
          /\ pc' = "loop"
          /\ failure' = ""]_vars

\* a transaction that starts with an ACK was printed, though the address of
\* its third byte is not in the allow-list
C12_Witness ==
    /\ pc = "loop"
    /\ include = <<1>>
    /\ events = <<65, 65, 32>>
    /\ calls # <<>>
    /\ Last(calls).xfer = events


(***************************************************************************)
(* The sequence numbers on the sink: a START marker is preceded by the     *)
(* four digits of f"{counter:04d}" and a blank.                            *)
(***************************************************************************)
DigitVal(ch) == (CHOOSE k \in 1..10 : Digits[k] = ch) - 1

StartMarks(o) == {p \in 1..Len(o) : o[p] = "START"}

\* the number printed in front of the START chunk at position p
NumberAt(o, p) ==
    LET q == IF Disabled THEN p - 5 ELSE p - 6
    IN  1000 * DigitVal(o[q]) + 100 * DigitVal(o[q + 1])
          + 10 * DigitVal(o[q + 2]) + DigitVal(o[q + 3])

(***************************************************************************)
(* C13. The numbers printed at successive START markers are strictly       *)
(* increasing over the whole run, so no sequence number is printed twice.  *)
(***************************************************************************)
C13_NumbersIncrease ==
    \A p, q \in StartMarks(out) :
        p < q => NumberAt(out, p) < NumberAt(out, q)


(***************************************************************************)
(* C14. print_xfer returns the counter it was given plus the number of     *)
(* START tokens of the transaction, for every transaction and every        *)
(* counter; the i-th START is printed with the number counter + i, and no  *)
(* other event changes the counter.                                        *)
(***************************************************************************)
StartTokens(s) == {i \in TokenStarts(s, 1) : i <= Len(s) /\ Tag(s[i]) = 1}

C14_CounterPerStart ==
    fn_call.op = "print_xfer" =>
        LET r == fn_call.ret
            c == fn_call.counter
            n == Cardinality(StartTokens(fn_xfer))
            marks == StartMarks(r.text)
        IN  /\ r.exc = ""
            /\ r.counter = c + n
            /\ Cardinality(marks) = n
            /\ \A p \in marks :
                  NumberAt(r.text, p) = c + Cardinality({q \in marks : q <= p})


(***************************************************************************)
(* C15. One line per transaction: after interact handed a transaction to   *)
(* print_xfer, a completed one or the partial of a stall, and print_xfer   *)
(* returned, the sink is at the start of a line, so the text of the next   *)
(* transaction never lands on the same line.                               *)
(***************************************************************************)
C15_LinePerTransaction ==
    [][(calls' # calls /\ failure' = "") =>
          (out' = <<>> \/ Last(out') = "\n")]_vars


ByteTokens(s) == {i \in TokenStarts(s, 1) : i <= Len(s) /\ Tag(s[i]) = 3}

C17_ThirdByteIsAddress ==
    (pc = "returned" /\ Tag(events[1]) = 1 /\ Len(events) >= 3) =>
        LET d == iter_xfer(events)
            addr == {k \in DataIdx(d) : d[k][3]}
        IN  /\ FirstOf(ByteTokens(events)) = {2}
            /\ addr # {}
            /\ \A k \in FirstOf(addr) :
                  to_7bit_address(events[3]) = to_7bit_address(d[k][2])


(***************************************************************************)
(* C18. iter_xfer keeps nothing between calls: is_address is False at the  *)
(* start of every call. When the transaction decoded last ended with a     *)
(* START token (is_address left True) and the next one starts with a BYTE  *)
(* token, that byte is decoded with is_address False: print_xfer prints it *)
(* as plain data, a blank and two hex digits, not as R/W and address.      *)
(***************************************************************************)
C18_FlagNotCarriedOver ==
    [][(/\ pc = "returned"
        /\ calls # <<>>
        /\ Len(Last(calls).xfer) \in StartTokens(Last(calls).xfer)
        /\ Tag(events[1]) = 3) =>
          /\ iter_xfer(events)[1] = <<BYTE, events[2], FALSE>>
          /\ calls' = Append(calls, [xfer |-> events, counter |-> counter])
          /\ SubSeq(out', Len(out) + 1, Len(out) + 3) = <<" ">> \o Fmt02x(events[2])]_vars

\* the partial [START] of a stall was printed, then the transaction
\* BYTE 0x02, STOP
C18_Witness ==
    /\ pc = "loop"
    /\ Len(calls) >= 2
    /\ calls[Len(calls) - 1].xfer = <<16>>
    /\ Last(calls).xfer = <<48, 2, 32>>


(***************************************************************************)
(* C19. The first read_byte of every read_xfer call has no deadline: as    *)
(* long as the call has read no byte it waits in the first read with       *)
(* timeout None, so it cannot raise XferTimeoutError, also when the call   *)
(* before ended in one; every later read of the call has the deadline of   *)
(* 0.3 s.                                                                  *)
(***************************************************************************)
C19_FirstReadUnbounded ==
    /\ (InCall /\ consumed = <<>>) => (pc = "read_token" /\ timeout = None)
    /\ (pc \in {"read_token", "read_data"} /\ consumed # <<>>) =>
          timeout = StallTimeoutMs

\* the second call, made after the first ended in a stall, waits for its
\* first byte without a deadline
C19_Witness ==
    /\ pc = "read_token"
    /\ ncalls = 2
    /\ consumed = <<>>
    /\ timeout = None
    /\ log # <<>>
    /\ Last(log) = "I2C transfer time out"


(***************************************************************************)
(* C20. The byte after a BYTE opcode is opaque to read_xfer and to         *)
(* iter_xfer, whatever its value: put a plain value in its place and       *)
(* nothing changes but that value. read_xfer ends the same way after the   *)
(* same number of bytes, with the same events but for the data byte, which *)
(* is appended if it was read; iter_xfer yields the same events but for    *)
(* the data of that one BYTE event. So a data byte with the tag of START,  *)
(* STOP, BYTE or ACK, or with an unknown tag, neither sets is_address nor  *)
(* ends the transaction, takes no further byte and is not dropped.         *)
(***************************************************************************)
\* the values put in the data byte's place: 0x02, which means nothing in
\* token position either
PlainValues == {2}
Subst(s, i, v) == [s EXCEPT ![i] = v]
Differ(a, b) == {j \in 1..Len(a) : a[j] # b[j]}

C20_DataOpaque ==
    fn_call.op = "read_xfer" =>
        LET r == fn_call.ret
            d == iter_xfer(fn_xfer)
        IN  \A i \in ByteTokens(fn_xfer), PlainData \in PlainValues :
                i + 1 <= Len(fn_xfer) =>
                    LET v == fn_xfer[i + 1]
                        plain == Subst(fn_xfer, i + 1, PlainData)
                        rp == read_xfer(plain)
                        dp == iter_xfer(plain)
                    IN  /\ rp.status = r.status
                        /\ rp.used = r.used
                        /\ Len(rp.events) = Len(r.events)
                        /\ Cardinality(Differ(r.events, rp.events))
                              = IF i + 1 <= r.used THEN 1 ELSE 0
                        /\ \A j \in Differ(r.events, rp.events) :
                              r.events[j] = v /\ rp.events[j] = PlainData
                        /\ Len(dp) = Len(d)
                        /\ Cardinality(Differ(d, dp)) = 1
                        /\ \A j \in Differ(d, dp) :
                              /\ d[j] = <<BYTE, v, dp[j][3]>>
                              /\ dp[j] = <<BYTE, PlainData, dp[j][3]>>

\* START, BYTE with the data 0x10 (the START byte), BYTE with the data 0x20
\* (the STOP byte), STOP: read to the end
C20_Witness ==
    /\ fn_call.op = "read_xfer"
    /\ fn_xfer = <<16, 48, 16, 48, 32, 32>>
    /\ fn_call.ret.status = "returned"
    /\ fn_call.ret.events = fn_xfer

====
